---------------------------- MODULE Spec2Model ----------------------------
(***************************************************************************)
(* A model of iplookup.rs (src/src/main.rs): the per-key sliding-window    *)
(* rate limiter (check_rate_limit), the fixed-size thread pool             *)
(* (ThreadPool::new / ThreadPool::execute and the accept loop of main),    *)
(* the incremental request framer (read_request) and the connection        *)
(* handler (handle_connection).                                            *)
(*                                                                         *)
(* Five specifications share the module:                                   *)
(*   SpecRL      the rate limiter under a monotonic clock,                 *)
(*   SpecPool    the worker pool (FairPool adds the scheduler's fairness), *)
(*   SpecFramer  read_request over chunked byte streams,                   *)
(*   SpecCheck   check_rate_limit, step by step, under concurrent callers, *)
(*   SpecServer  accept loop, workers and handle_connection together.      *)
(***************************************************************************)
EXTENDS Integers, Sequences, FiniteSets, TLC

VARIABLES
    \* ---- rate limiter ----
    now,        \* the monotonic clock Instant::now() reads, in seconds
    map,        \* HashMap<String, Vec<Instant>>: a function on the keys present
    hist,       \* history: per key, every check() made, as [t, ok] records
    solo,       \* reference run: per key, the limiter fed that key's checks alone
    accOnly,    \* reference run: per key, the limiter fed its accepted checks alone
    \* ---- thread pool ----
    queue,      \* the mpsc channel: jobs sent and not yet received, oldest first
    wpc,        \* per worker thread: "lock", "recv", "run" or "dead"
    wjob,       \* per worker: the job it is running (NoJob when none)
    rxHolder,   \* the worker that holds the Mutex around the receiver
    rxPoisoned, \* whether that Mutex is poisoned
    accepted,   \* how many connections the accept loop has submitted
    started,    \* the jobs a worker has received and begun to run
    finished,   \* the jobs that returned
    failed,     \* the jobs that panicked
    afterFailure, \* the jobs submitted after some job had panicked
    apc,        \* the accept loop of main: "accept" while it runs, "exited"
    acceptErrors, \* how many accepts failed
    dropped,    \* the jobs that were dropped unexecuted with the channel
    \* ---- request framer (one call of read_request) ----
    fpc,            \* "read" (in the loop), "done" (Ok returned), "err", "panic"
    request,        \* the Vec<u8> accumulated
    content_length, \* the local content_length (a usize)
    body_start,     \* the local body_start
    nreads,         \* how many reads returned data
    lastRead,       \* what the last read returned: "none", "data", "eof", "err"
    overflowChecks, \* whether the build panics on arithmetic overflow
    \* ---- the limiter's Mutex and the calls of check_rate_limit in progress ----
    limHolder,   \* the thread that holds the Mutex around the map
    limPoisoned, \* whether that Mutex is poisoned
    kpc,         \* per thread: "idle", "lock", "retain", "test", "push", "ret"
    kkey,        \* per thread: the ip its call was given
    know,        \* per thread: the local `now` of its call
    kres,        \* per thread: what its last call returned
    \* ---- handle_connection, per worker thread ----
    cpc,         \* where the worker is in handle_connection
    clog,        \* what it has done for its connection so far, in order
    served       \* how many connections got each kind of ending

rlVars == <<now, map, hist, solo, accOnly>>
poolVars == <<queue, wpc, wjob, rxHolder, rxPoisoned, accepted, started,
              finished, failed, afterFailure, apc, acceptErrors, dropped>>
frVars == <<fpc, request, content_length, body_start, nreads, lastRead,
            overflowChecks>>
limVars == <<limHolder, limPoisoned, kpc, kkey, know, kres>>
connVars == <<cpc, clog, served>>
vars == <<rlVars, poolVars, frVars, limVars, connVars>>

(***************************************************************************)
(* Rate limiter: check_rate_limit, main.rs 266-295                         *)
(***************************************************************************)

\* let window = Duration::from_secs(60);
Window == 60

\* let max_requests = 30;
MaxRequests == 30

\* The client identities (peer IP strings) of the model.
HeavyKey == "10.0.0.1"
LightKey == "10.0.0.2"
Keys == {HeavyKey, LightKey}

\* Bounds of the rate-limiter model.
MaxChecks == 32        \* check() calls made for HeavyKey
MaxLightChecks == 2    \* check() calls made for every other key
MaxTime == 60          \* the clock stops advancing at this instant
TickSteps == {30, 60}  \* the amounts by which the clock advances

\* Instant::duration_since: saturates to zero when `earlier` is later.
DurationSince(t, earlier) == IF t >= earlier THEN t - earlier ELSE 0

\* A limiter keyed by one shared identity instead of the peer's own.
MapKeyShared(ip) == HeavyKey

\* ip.to_owned(): the map key is the peer IP string itself.
MapKey(ip) == ip

\* map.entry(..).or_default(): the key's vector, created empty.
EntryOrDefault(m, k) == IF k \in DOMAIN m THEN m[k] ELSE <<>>

\* An eviction that keeps a timestamp exactly one window old.
RetainInclusive(ts, t) ==
    LET keep(x) == DurationSince(t, x) <= Window
    IN  SelectSeq(ts, keep)

\* timestamps.retain(|&t| now.duration_since(t) < window)
Retain(ts, t) ==
    LET keep(x) == DurationSince(t, x) < Window
    IN  SelectSeq(ts, keep)

\* A limit test that is off by one: it admits a 31st request.
AtLimitStrict(ts) == Len(ts) > MaxRequests

\* if timestamps.len() >= max_requests { return false; }
AtLimit(ts) == Len(ts) >= MaxRequests

\* The map with key k bound to ts, every other entry as it was.
Put(m, k, ts) ==
    [j \in (DOMAIN m) \cup {k} |-> IF j = k THEN ts ELSE m[j]]

\* A limiter that records the attempt before it tests the limit.
check_rate_limit_recording(m, ip, t) ==
    LET k == MapKey(ip)
        timestamps == Retain(EntryOrDefault(m, k), t)
    IN  [ok |-> ~AtLimit(timestamps), map |-> Put(m, k, Append(timestamps, t))]

\* check_rate_limit with the lock acquired: the result and the map after it.
check_rate_limit(m, ip, t) ==
    LET k == MapKey(ip)
        timestamps == Retain(EntryOrDefault(m, k), t)
    IN  IF AtLimit(timestamps)
        THEN [ok |-> FALSE, map |-> Put(m, k, timestamps)]
        ELSE [ok |-> TRUE,  map |-> Put(m, k, Append(timestamps, t))]

\* How many check() calls the model makes for a key.
Budget(k) == IF k = HeavyKey THEN MaxChecks ELSE MaxLightChecks

RLStart ==
    /\ now = 0
    /\ map = <<>>
    /\ hist = [k \in Keys |-> <<>>]
    /\ solo = [k \in Keys |-> [map |-> <<>>, oks |-> <<>>]]
    /\ accOnly = [k \in Keys |-> [map |-> <<>>, oks |-> <<>>]]

\* A reference run, after one more check_rate_limit call for key k at t.
Fed(run, k, t) ==
    LET r == check_rate_limit(run.map, k, t)
    IN  [map |-> r.map, oks |-> Append(run.oks, r.ok)]

\* One call of check_rate_limit(&limiter, k) at the current instant.
Check(k) ==
    /\ Len(hist[k]) < Budget(k)
    /\ LET r == check_rate_limit(map, k, now)
       IN  /\ map' = r.map
           /\ hist' = [hist EXCEPT ![k] = Append(@, [t |-> now, ok |-> r.ok])]
           /\ solo' = [solo EXCEPT ![k] = Fed(@, k, now)]
           /\ accOnly' = [accOnly EXCEPT
                             ![k] = IF r.ok THEN Fed(@, k, now) ELSE @]
    /\ UNCHANGED <<now, poolVars, frVars, limVars, connVars>>

\* Time passes between two calls.
Tick ==
    /\ \E d \in TickSteps :
          /\ now + d <= MaxTime
          /\ now' = now + d
    /\ UNCHANGED <<map, hist, solo, accOnly, poolVars, frVars, limVars,
                   connVars>>

RLNext ==
    \/ \E k \in Keys : Check(k)
    \/ Tick

(***************************************************************************)
(* Thread pool: ThreadPool::new, ThreadPool::execute and the accept loop   *)
(* of main, main.rs 28-60 and 84-93                                        *)
(***************************************************************************)

\* Bounds of the pool model.
PoolSize == 3      \* ThreadPool::new(size): the worker threads spawned
MaxJobs == 4       \* connections the accept loop takes in
MaxAcceptErrors == 2   \* accepts that fail

Workers == 1..PoolSize
Jobs == 1..MaxJobs
NoWorker == 0
NoJob == 0

\* ThreadPool::new: the channel is empty, the receiver's Mutex free, and every
\* spawned thread is about to evaluate rx.lock(). main is about to accept.
PoolStart ==
    /\ queue = <<>>
    /\ wpc = [w \in Workers |-> "lock"]
    /\ wjob = [w \in Workers |-> NoJob]
    /\ rxHolder = NoWorker
    /\ rxPoisoned = FALSE
    /\ accepted = 0
    /\ started = {}
    /\ finished = {}
    /\ failed = {}
    /\ afterFailure = {}
    /\ apc = "accept"
    /\ acceptErrors = 0
    /\ dropped = {}

\* The elements of a sequence.
Range(q) == {q[i] : i \in 1..Len(q)}

\* Every worker thread has ended. Each thread owns one clone of the Arc around
\* the receiver; when the last of them ends the receiver is dropped, and with
\* it the jobs still in the channel.
ReceiverGone(pcs) == \A w \in Workers : pcs[w] = "dead"

\* main's loop: one accepted connection becomes one job, sent by
\* pool.execute (tx.send never blocks: the channel is unbounded). With the
\* receiver gone send returns Err, which execute ignores: the job is dropped.
AcceptUpTo(n) ==
    /\ apc = "accept"
    /\ accepted < n
    /\ accepted' = accepted + 1
    /\ IF ReceiverGone(wpc)
       THEN /\ dropped' = dropped \cup {accepted + 1}
            /\ UNCHANGED queue
       ELSE /\ queue' = Append(queue, accepted + 1)
            /\ UNCHANGED dropped
    /\ afterFailure' = IF failed # {} THEN afterFailure \cup {accepted + 1}
                                      ELSE afterFailure
    /\ UNCHANGED <<wpc, wjob, rxHolder, rxPoisoned, started, finished, failed,
                   apc, acceptErrors, rlVars, frVars, limVars, connVars>>

Accept == AcceptUpTo(MaxJobs)

\* Where the accept loop is after an accept that failed: flatten() skips the
\* Err and the loop asks incoming() for the next connection.
AfterAcceptErrorExit == "exited"
AfterAcceptError == "accept"

\* listener.incoming() yields Err (the accept failed): nothing is submitted.
AcceptFail ==
    /\ apc = "accept"
    /\ acceptErrors < MaxAcceptErrors
    /\ acceptErrors' = acceptErrors + 1
    /\ apc' = AfterAcceptError
    /\ UNCHANGED <<queue, wpc, wjob, rxHolder, rxPoisoned, accepted, started,
                   finished, failed, afterFailure, dropped, rlVars, frVars,
                   limVars, connVars>>

\* rx.lock().unwrap(): the thread waits for the Mutex; with the Mutex
\* poisoned lock() returns Err and unwrap() panics, which ends the thread
\* (the guard inside the error is dropped, the Mutex is free again).
Lock(w) ==
    /\ wpc[w] = "lock"
    /\ rxHolder = NoWorker
    /\ IF rxPoisoned
       THEN /\ wpc' = [wpc EXCEPT ![w] = "dead"]
            /\ queue' = IF ReceiverGone(wpc') THEN <<>> ELSE queue
            /\ dropped' = IF ReceiverGone(wpc') THEN dropped \cup Range(queue)
                                                ELSE dropped
            /\ UNCHANGED rxHolder
       ELSE /\ wpc' = [wpc EXCEPT ![w] = "recv"]
            /\ rxHolder' = w
            /\ UNCHANGED <<queue, dropped>>
    /\ UNCHANGED <<wjob, rxPoisoned, accepted, started, finished,
                   failed, afterFailure, apc, acceptErrors, rlVars, frVars,
                   limVars, connVars>>

\* The job .recv() hands out: the oldest in the channel.
Newest(q) == q[Len(q)]
Oldest(q) == Head(q)

\* .recv(): blocks, the Mutex held, until a job is in the channel, and takes
\* the oldest. (The sender lives as long as main, so recv never returns Err.)
Recv(w) ==
    /\ wpc[w] = "recv"
    /\ queue # <<>>
    /\ wjob' = [wjob EXCEPT ![w] = Oldest(queue)]
    /\ queue' = Tail(queue)
    /\ started' = started \cup {Oldest(queue)}
    /\ wpc' = [wpc EXCEPT ![w] = "run"]
    /\ UNCHANGED <<rxHolder, rxPoisoned, accepted, finished, failed,
                   afterFailure, apc, acceptErrors, dropped, rlVars, frVars,
                   limVars>>

\* job() returns. The MutexGuard is a temporary of the `while let` scrutinee:
\* it is dropped here, at the end of the loop body, and not before job().
JobReturn(w) ==
    /\ wpc[w] = "run"
    /\ finished' = finished \cup {wjob[w]}
    /\ wjob' = [wjob EXCEPT ![w] = NoJob]
    /\ rxHolder' = NoWorker
    /\ wpc' = [wpc EXCEPT ![w] = "lock"]
    /\ UNCHANGED <<queue, rxPoisoned, accepted, started, failed, afterFailure,
                   apc, acceptErrors, dropped, rlVars, frVars, limVars>>

\* job() panics (nothing catches it): the thread unwinds and ends; the guard
\* is dropped during the unwinding, which poisons the Mutex and frees it.
\* handle_connection panics when read_request's `request.len() - body_start`
\* overflows in a build with overflow checks (pc "panic" of the framer).
JobPanic(w) ==
    /\ wpc[w] = "run"
    /\ overflowChecks
    /\ failed' = failed \cup {wjob[w]}
    /\ wjob' = [wjob EXCEPT ![w] = NoJob]
    /\ rxHolder' = NoWorker
    /\ rxPoisoned' = TRUE
    /\ wpc' = [wpc EXCEPT ![w] = "dead"]
    /\ queue' = IF ReceiverGone(wpc') THEN <<>> ELSE queue
    /\ dropped' = IF ReceiverGone(wpc') THEN dropped \cup Range(queue)
                                        ELSE dropped
    /\ UNCHANGED <<accepted, started, finished, afterFailure, apc,
                   acceptErrors, rlVars, frVars, limVars>>

\* One step of worker thread w.
WorkerStep(w) ==
    \/ Lock(w)
    \/ Recv(w) /\ UNCHANGED connVars
    \/ JobReturn(w) /\ UNCHANGED connVars
    \/ JobPanic(w) /\ UNCHANGED connVars

PoolNext ==
    \/ Accept
    \/ AcceptFail
    \/ \E w \in Workers : WorkerStep(w)

(***************************************************************************)
(* check_rate_limit under the limiter's Mutex, main.rs 266-295, as the     *)
(* steps one calling thread takes                                          *)
(***************************************************************************)

\* Bound of the model of concurrent callers.
MaxCallers == 2    \* threads that call check_rate_limit at the same time

Callers == {w \in Workers : w <= MaxCallers}

\* Arc::new(Mutex::new(HashMap::new())): the Mutex free, no call in progress.
LimStart ==
    /\ limHolder = NoWorker
    /\ kpc = [w \in Workers |-> "idle"]
    /\ kkey = [w \in Workers |-> HeavyKey]
    /\ know = [w \in Workers |-> 0]
    /\ kres = [w \in Workers |-> FALSE]

\* A lock that never makes a caller wait.
LimiterFreeAlways(holder) == TRUE

\* limiter.lock() returns once no other thread holds the Mutex.
LimiterFree(holder) == holder = NoWorker

\* A limiter that fails closed on a poisoned Mutex.
PoisonedVerdictDeny == FALSE

\* Err(_) => return true
PoisonedVerdict == TRUE

\* A guard that outlives the call: the caller keeps the Mutex.
HolderKept(w) == w

\* The holder of the Mutex once check_rate_limit has returned: the guard
\* `map` is a local of the function and is dropped at each of its returns.
HolderAfterReturn(w) == NoWorker

\* let mut map = match limiter.lock() { Ok(guard) => guard,
\*                                      Err(_) => return true };
CkLock(w) ==
    /\ kpc[w] = "lock"
    /\ LimiterFree(limHolder)
    /\ IF limPoisoned
       THEN /\ kres' = [kres EXCEPT ![w] = PoisonedVerdict]
            /\ kpc' = [kpc EXCEPT ![w] = "ret"]
            /\ UNCHANGED limHolder
       ELSE /\ limHolder' = w
            /\ kpc' = [kpc EXCEPT ![w] = "retain"]
            /\ UNCHANGED kres
    /\ UNCHANGED <<limPoisoned, kkey, know, rlVars, poolVars, frVars, connVars>>

\* (The locals `now` and the returned value are set back to their initial
\* values of the model once they are dead.)
\* let now = Instant::now(); ... let timestamps = map.entry(..).or_default();
\* timestamps.retain(..): the vector is pruned in place.
CkRetain(w) ==
    /\ kpc[w] = "retain"
    /\ know' = [know EXCEPT ![w] = now]
    /\ LET k == MapKey(kkey[w])
       IN  map' = Put(map, k, Retain(EntryOrDefault(map, k), now))
    /\ kpc' = [kpc EXCEPT ![w] = "test"]
    /\ UNCHANGED <<now, hist, solo, accOnly, limHolder, limPoisoned, kkey, kres,
                   poolVars, frVars, connVars>>

\* if timestamps.len() >= max_requests { return false; }
CkTest(w) ==
    /\ kpc[w] = "test"
    /\ LET k == MapKey(kkey[w])
       IN  IF AtLimit(EntryOrDefault(map, k))
           THEN /\ kres' = [kres EXCEPT ![w] = FALSE]
                /\ kpc' = [kpc EXCEPT ![w] = "ret"]
                /\ limHolder' = HolderAfterReturn(w)
                /\ hist' = [hist EXCEPT
                              ![k] = Append(@, [t |-> know[w], ok |-> FALSE])]
                /\ solo' = [solo EXCEPT ![k] = Fed(@, k, know[w])]
                /\ know' = [know EXCEPT ![w] = 0]
           ELSE /\ kpc' = [kpc EXCEPT ![w] = "push"]
                /\ UNCHANGED <<kres, limHolder, hist, solo, know>>
    /\ UNCHANGED <<now, map, accOnly, limPoisoned, kkey, poolVars, frVars,
                   connVars>>

\* timestamps.push(now); true
CkPush(w) ==
    /\ kpc[w] = "push"
    /\ LET k == MapKey(kkey[w])
       IN  /\ map' = Put(map, k, Append(EntryOrDefault(map, k), know[w]))
           /\ hist' = [hist EXCEPT
                         ![k] = Append(@, [t |-> know[w], ok |-> TRUE])]
           /\ solo' = [solo EXCEPT ![k] = Fed(@, k, know[w])]
    /\ kres' = [kres EXCEPT ![w] = TRUE]
    /\ kpc' = [kpc EXCEPT ![w] = "ret"]
    /\ limHolder' = HolderAfterReturn(w)
    /\ know' = [know EXCEPT ![w] = 0]
    /\ UNCHANGED <<now, accOnly, limPoisoned, kkey, poolVars, frVars,
                   connVars>>

\* The steps of a call in progress.
CkStep(w) ==
    \/ CkLock(w)
    \/ CkRetain(w)
    \/ CkTest(w)
    \/ CkPush(w)

\* The calls started for key k: those recorded and those in progress.
CallsMade(k) ==
    Len(hist[k])
       + Cardinality({w \in Workers :
                         kpc[w] \in {"lock", "retain", "test", "push"}
                         /\ kkey[w] = k})

\* A thread calls check_rate_limit(&limiter, HeavyKey).
CkCall(w) ==
    /\ kpc[w] = "idle"
    /\ CallsMade(HeavyKey) < MaxChecks
    /\ kpc' = [kpc EXCEPT ![w] = "lock"]
    /\ kkey' = [kkey EXCEPT ![w] = HeavyKey]
    /\ UNCHANGED <<limHolder, limPoisoned, know, kres, rlVars, poolVars, frVars,
                   connVars>>

\* The caller has the result and is free to call again.
CkReturn(w) ==
    /\ kpc[w] = "ret"
    /\ kpc' = [kpc EXCEPT ![w] = "idle"]
    /\ kres' = [kres EXCEPT ![w] = FALSE]
    /\ UNCHANGED <<limHolder, limPoisoned, kkey, know, rlVars, poolVars,
                   frVars, connVars>>

CheckNext ==
    \/ \E w \in Callers : CkCall(w)
    \/ \E w \in Callers : CkStep(w)
    \/ \E w \in Callers : CkReturn(w)
    \/ Tick

(***************************************************************************)
(* Request framer: read_request, main.rs 98-143                            *)
(*                                                                         *)
(* Bytes and characters are tokens: a printable ASCII byte is its own      *)
(* character, "CR" and "LF" are 0x0D and 0x0A, "FF", "C3" and "A9" are the *)
(* bytes 0xFF, 0xC3 and 0xA9, "U+00E9" is the character made of C3 A9 and  *)
(* "U+FFFD" the replacement character.  A buffer is a sequence of runs     *)
(* [c |-> token, n |-> count]; only the filler runs ("x" and "FF") of the  *)
(* inputs have a count above one.                                          *)
(***************************************************************************)

\* let mut buf = [0; 8192];
ChunkSize == 8192

\* if request.len() > 16384 { break; }
Cap == 16384

\* Bound of the framer model: the reads that return data.
MaxReads == 3

\* A text as runs of one.
Text(s) == [i \in 1..Len(s) |-> [c |-> s[i], n |-> 1]]

\* A filler of n equal bytes.
Fill(c, n) == <<[c |-> c, n |-> n]>>

\* The length in bytes (UTF-8) of a byte or character token.
Width(c) == IF c = "U+FFFD" THEN 3 ELSE IF c = "U+00E9" THEN 2 ELSE 1

Min(S) == CHOOSE x \in S : \A y \in S : x <= y
Max(S) == CHOOSE x \in S : \A y \in S : x >= y

\* The length in bytes of s[lo..hi].
RECURSIVE ByteLenRange(_, _, _)
ByteLenRange(s, lo, hi) ==
    IF lo > hi THEN 0
    ELSE IF lo = hi THEN s[lo].n * Width(s[lo].c)
    ELSE LET mid == (lo + hi) \div 2
         IN  ByteLenRange(s, lo, mid) + ByteLenRange(s, mid + 1, hi)

\* Vec::len / str::len
ByteLen(s) == ByteLenRange(s, 1, Len(s))

\* String::from_utf8_lossy, run i of the bytes b: an invalid byte becomes one
\* U+FFFD, the pair C3 A9 one U+00E9, a lone C3 or A9 one U+FFFD.
DecodeRun(b, i) ==
    LET r == b[i]
    IN  CASE r.c = "FF" -> [c |-> "U+FFFD", n |-> r.n]
          [] r.c = "C3" -> IF i < Len(b) /\ b[i + 1].c = "A9"
                           THEN [c |-> "U+00E9", n |-> 1]
                           ELSE [c |-> "U+FFFD", n |-> r.n]
          [] r.c = "A9" -> IF i > 1 /\ b[i - 1].c = "C3"
                           THEN [c |-> "U+FFFD", n |-> r.n - 1]
                           ELSE [c |-> "U+FFFD", n |-> r.n]
          [] OTHER -> r

\* String::from_utf8_lossy(&request)
from_utf8_lossy(b) ==
    LET dec == [i \in 1..Len(b) |-> DecodeRun(b, i)]
        kept(r) == r.n > 0
    IN  SelectSeq(dec, kept)

\* The text s holds the pattern pat (tokens) at run i.
IsAt(s, i, pat) ==
    /\ i + Len(pat) - 1 <= Len(s)
    /\ \A j \in 1..Len(pat) : s[i + j - 1].c = pat[j] /\ s[i + j - 1].n = 1

\* "\r\n\r\n"
Terminator == <<"CR", "LF", "CR", "LF">>

\* str::find: the run at which the first occurrence starts, 0 for None.
FindIndex(s, pat) ==
    LET hits == {i \in 1..Len(s) : IsAt(s, i, pat)}
    IN  IF hits = {} THEN 0 ELSE Min(hits)

\* str::lines: the runs at which the lines of s start.
LineStarts(s) ==
    {st \in 1..Len(s) : st = 1 \/ s[st - 1].c = "LF"}

\* str::lines: the last run of the line that starts at st; the "\n" that ends
\* it and a "\r" right before that "\n" are not part of the line.
LineEnd(s, st) ==
    LET lf == Min({j \in st..Len(s) : s[j].c = "LF"} \cup {Len(s) + 1})
        e == lf - 1
    IN  IF lf <= Len(s) /\ e >= st /\ s[e].c = "CR" THEN e - 1 ELSE e

Line(s, st) == SubSeq(s, st, LineEnd(s, st))

UpperCase == <<"A", "B", "C", "D", "E", "F", "G", "H", "I", "J", "K", "L", "M",
               "N", "O", "P", "Q", "R", "S", "T", "U", "V", "W", "X", "Y", "Z">>
LowerCase == <<"a", "b", "c", "d", "e", "f", "g", "h", "i", "j", "k", "l", "m",
               "n", "o", "p", "q", "r", "s", "t", "u", "v", "w", "x", "y", "z">>

\* str::to_lowercase, one character.
ToLowerChar(c) ==
    IF \E i \in 1..Len(UpperCase) : UpperCase[i] = c
    THEN LowerCase[CHOOSE i \in 1..Len(UpperCase) : UpperCase[i] = c]
    ELSE c

\* "content-length:"
HeaderName == <<"c", "o", "n", "t", "e", "n", "t", "-",
                "l", "e", "n", "g", "t", "h", ":">>

\* line.to_lowercase().starts_with("content-length:")
IsLengthLine(line) ==
    /\ Len(line) >= Len(HeaderName)
    /\ \A j \in 1..Len(HeaderName) :
          ToLowerChar(line[j].c) = HeaderName[j] /\ line[j].n = 1

\* line.split(':').nth(1): the text between the first colon and the next one
\* (or the end of the line); None for a line without a colon.
SplitNth1(line) ==
    LET colons == {j \in 1..Len(line) : line[j].c = ":"}
        c1 == Min(colons)
        c2 == Min({j \in colons : j > c1} \cup {Len(line) + 1})
    IN  SubSeq(line, c1 + 1, c2 - 1)

WhiteSpace == {" ", "TAB", "CR", "LF"}

\* str::trim
Trim(t) ==
    LET solid == {j \in 1..Len(t) : t[j].c \notin WhiteSpace}
    IN  IF solid = {} THEN <<>> ELSE SubSeq(t, Min(solid), Max(solid))

Digits == <<"0", "1", "2", "3", "4", "5", "6", "7", "8", "9">>
IsDigit(r) == r.n = 1 /\ \E d \in 1..10 : Digits[d] = r.c
DigitVal(r) == (CHOOSE d \in 1..10 : Digits[d] = r.c) - 1

\* A usize is three limbs <<a, b, c>> of value a * 10^18 + b * 10^9 + c.
U(n) == <<0, 0, n>>
UsizeMax == <<18, 446744073, 709551615>>

\* x >= y on usize
GE(x, y) ==
    \/ x[1] > y[1]
    \/ x[1] = y[1] /\ x[2] > y[2]
    \/ x[1] = y[1] /\ x[2] = y[2] /\ x[3] >= y[3]

\* The number written by the digits t[lo..hi] (at most nine of them).
RECURSIVE Num(_, _, _)
Num(t, lo, hi) ==
    IF lo > hi THEN 0 ELSE Num(t, lo, hi - 1) * 10 + DigitVal(t[hi])

\* str::parse::<usize>: an optional "+", then one or more decimal digits whose
\* value fits 64 bits; anything else is an Err.
ParseUsize(t) ==
    LET body == IF Len(t) > 0 /\ t[1] = [c |-> "+", n |-> 1] THEN Tail(t) ELSE t
        nonzero == {j \in 1..Len(body) : body[j].c # "0"}
        sig == IF nonzero = {} THEN <<>>
               ELSE SubSeq(body, Min(nonzero), Len(body))
        k == Len(sig)
        val == <<Num(sig, 1, k - 18), Num(sig, Max({1, k - 17}), k - 9),
                 Num(sig, Max({1, k - 8}), k)>>
    IN  IF body = <<>> \/ \E j \in 1..Len(body) : ~IsDigit(body[j])
        THEN [ok |-> FALSE, val |-> U(0)]
        ELSE IF k > 20 \/ ~GE(UsizeMax, val)
        THEN [ok |-> FALSE, val |-> U(0)]
        ELSE [ok |-> TRUE, val |-> val]

\* len_str.trim().parse().unwrap_or(0)
ParseOrZero(t) ==
    LET p == ParseUsize(Trim(t))
    IN  IF p.ok THEN p.val ELSE U(0)

\* for line in req_str.lines(): the lines the scan goes through.
ScannedLineStarts(s) == LineStarts(s)

\* The for loop over the lines (main.rs 119-126): the first line that starts
\* with "content-length:" sets content_length and ends the scan; without such
\* a line content_length keeps the value it had.
ScanContentLength(s, old) ==
    LET hits == {st \in ScannedLineStarts(s) : IsLengthLine(Line(s, st))}
    IN  IF hits = {} THEN old
        ELSE ParseOrZero(SplitNth1(Line(s, Min(hits))))

\* A cap that is never reached.
OverCapNever(len) == FALSE

\* if request.len() > 16384 { break; }
OverCap(len) == len > Cap

\* request.len() - body_start when body_start is the larger: the subtraction
\* wraps modulo 2^64 (a build without overflow checks).
WrappingSub(len, start) == <<18, 446744073, 709551616 - (start - len)>>

\* The loop body after request.extend_from_slice (main.rs 112-139), on the
\* bytes req accumulated so far: where the loop goes next and the locals.
AfterRead(req, old_length, old_start, checks) ==
    LET req_str == from_utf8_lossy(req)
        idx == FindIndex(req_str, Terminator)
        capped == IF OverCap(ByteLen(req)) THEN "done" ELSE "read"
    IN  IF idx = 0
        THEN [pc |-> capped, content_length |-> old_length,
              body_start |-> old_start]
        ELSE LET start == ByteLenRange(req_str, 1, idx - 1) + 4
                 length == ScanContentLength(req_str, old_length)
                 underflow == ByteLen(req) < start
                 body_received == IF underflow
                                  THEN WrappingSub(ByteLen(req), start)
                                  ELSE U(ByteLen(req) - start)
             IN  [pc |-> IF underflow /\ checks THEN "panic"
                         ELSE IF GE(body_received, length) THEN "done"
                         ELSE capped,
                  content_length |-> length,
                  body_start |-> start]

\* GetNoBody: a complete GET without a body.
GetNoBody ==
    Text(<<
        "G", "E", "T", " ", "/", " ", "H", "T", "T", "P", "/", "1", ".",
        "1", "CR", "LF", "H", "o", "s", "t", ":", " ", "a", "CR", "LF",
        "CR", "LF">>)

\* PostHead5: the head of a POST that declares 5 body bytes.
PostHead5 ==
    Text(<<
        "P", "O", "S", "T", " ", "/", " ", "H", "T", "T", "P", "/", "1",
        ".", "1", "CR", "LF", "C", "o", "n", "t", "e", "n", "t", "-", "L",
        "e", "n", "g", "t", "h", ":", " ", "5", "CR", "LF", "CR", "LF">>)

\* PostFull5: a whole POST, lower-case header name, body included.
PostFull5 ==
    Text(<<
        "P", "O", "S", "T", " ", "/", " ", "H", "T", "T", "P", "/", "1",
        ".", "1", "CR", "LF", "c", "o", "n", "t", "e", "n", "t", "-", "l",
        "e", "n", "g", "t", "h", ":", "5", "CR", "LF", "CR", "LF", "h",
        "e", "l", "l", "o">>)

\* HeadOpen5: a head still open (no blank line yet), upper-case header name.
HeadOpen5 ==
    Text(<<
        "P", "O", "S", "T", " ", "/", " ", "H", "T", "T", "P", "/", "1",
        ".", "1", "CR", "LF", "C", "O", "N", "T", "E", "N", "T", "-", "L",
        "E", "N", "G", "T", "H", ":", " ", "+", "5", "CR", "LF">>)

\* BlankLine: the blank line that closes a head.
BlankLine ==
    Text(<<
        "CR", "LF">>)

\* Hello: five body bytes.
Hello ==
    Text(<<
        "h", "e", "l", "l", "o">>)

\* He: two body bytes.
He ==
    Text(<<
        "h", "e">>)

\* LengthLine: a Content-Length line: a header before the blank line, body text after it.
LengthLine ==
    Text(<<
        "C", "o", "n", "t", "e", "n", "t", "-", "L", "e", "n", "g", "t",
        "h", ":", " ", "9", "9", "CR", "LF">>)

\* PostHeadBad: a head whose Content-Length does not parse.
PostHeadBad ==
    Text(<<
        "P", "O", "S", "T", " ", "/", " ", "H", "T", "T", "P", "/", "1",
        ".", "1", "CR", "LF", "C", "o", "n", "t", "e", "n", "t", "-", "L",
        "e", "n", "g", "t", "h", ":", " ", "a", "b", "c", "CR", "LF", "CR",
        "LF">>)

\* PostHeadOverflow: a head whose Content-Length is usize::MAX + 1.
PostHeadOverflow ==
    Text(<<
        "P", "O", "S", "T", " ", "/", " ", "H", "T", "T", "P", "/", "1",
        ".", "1", "CR", "LF", "C", "o", "n", "t", "e", "n", "t", "-", "L",
        "e", "n", "g", "t", "h", ":", " ", "1", "8", "4", "4", "6", "7",
        "4", "4", "0", "7", "3", "7", "0", "9", "5", "5", "1", "6", "1",
        "6", "CR", "LF", "CR", "LF">>)

\* PostHeadBig: a head that declares more than the cap.
PostHeadBig ==
    Text(<<
        "P", "O", "S", "T", " ", "/", " ", "H", "T", "T", "P", "/", "1",
        ".", "1", "CR", "LF", "C", "o", "n", "t", "e", "n", "t", "-", "L",
        "e", "n", "g", "t", "h", ":", " ", "2", "0", "0", "0", "0", "CR",
        "LF", "CR", "LF">>)

\* PostHeadLatin1: a head with one invalid byte (0xFF) in a header value, 5 body bytes declared.
PostHeadLatin1 ==
    Text(<<
        "P", "O", "S", "T", " ", "/", " ", "H", "T", "T", "P", "/", "1",
        ".", "1", "CR", "LF", "X", ":", " ", "FF", "CR", "LF", "C", "o",
        "n", "t", "e", "n", "t", "-", "L", "e", "n", "g", "t", "h", ":",
        " ", "5", "CR", "LF", "CR", "LF">>)

\* GetUtf8: a complete GET with a valid two-byte character in a header value.
GetUtf8 ==
    Text(<<
        "G", "E", "T", " ", "/", " ", "H", "T", "T", "P", "/", "1", ".",
        "1", "CR", "LF", "X", ":", " ", "C3", "A9", "CR", "LF", "CR", "LF">>)

\* BadBytesHead: three invalid bytes and the header terminator.
BadBytesHead ==
    Text(<<
        "FF", "FF", "FF", "CR", "LF", "CR", "LF">>)

\* PostBodyLength: a POST without Content-Length whose body text is a Content-Length line.
PostBodyLength ==
    Text(<<
        "P", "O", "S", "T", " ", "/", " ", "H", "T", "T", "P", "/", "1", ".",
        "1", "CR", "LF", "CR", "LF", "C", "o", "n", "t", "e", "n", "t", "-",
        "L", "e", "n", "g", "t", "h", ":", " ", "9", "9", "CR", "LF">>)

\* PostFullLatin1: a whole POST with one invalid byte (0xFF) in a header value and its 5 body bytes.
PostFullLatin1 ==
    Text(<<
        "P", "O", "S", "T", " ", "/", " ", "H", "T", "T", "P", "/", "1", ".",
        "1", "CR", "LF", "X", ":", " ", "FF", "CR", "LF", "C", "o", "n", "t",
        "e", "n", "t", "-", "L", "e", "n", "g", "t", "h", ":", " ", "5", "CR",
        "LF", "CR", "LF", "h", "e", "l", "l", "o">>)

\* What one read may deliver: at most ChunkSize bytes.
Chunks ==
    {GetNoBody, PostHead5, PostFull5, HeadOpen5,
     BlankLine, Hello, He, LengthLine,
     PostHeadBad, PostHeadOverflow, PostHeadBig, PostHeadLatin1,
     GetUtf8, BadBytesHead,
     PostBodyLength, PostFullLatin1,
     Fill("x", ChunkSize), Fill("x", ChunkSize - 1), Fill("FF", ChunkSize)}

\* read_request is entered: nothing read, the locals at their initial values.
FramerIdle ==
    /\ fpc = "read"
    /\ request = <<>>
    /\ content_length = U(0)
    /\ body_start = 0
    /\ nreads = 0
    /\ lastRead = "none"

\* The build: with overflow checks (debug profile) or without (release).
FramerStart ==
    /\ FramerIdle
    /\ overflowChecks \in BOOLEAN

\* stream.read(&mut buf) returns n > 0 bytes, and the loop body runs.
FrRead ==
    /\ fpc = "read"
    /\ nreads < MaxReads
    /\ \E chunk \in Chunks :
          LET req == request \o chunk
              r == AfterRead(req, content_length, body_start, overflowChecks)
          IN  /\ request' = req
              /\ fpc' = r.pc
              /\ content_length' = r.content_length
              /\ body_start' = r.body_start
    /\ nreads' = nreads + 1
    /\ lastRead' = "data"
    /\ UNCHANGED <<overflowChecks, rlVars, poolVars, limVars, connVars>>

\* stream.read returns Ok(0), the peer closed: break.
FrEof ==
    /\ fpc = "read"
    /\ fpc' = "done"
    /\ lastRead' = "eof"
    /\ UNCHANGED <<request, content_length, body_start, nreads, overflowChecks,
                   rlVars, poolVars, limVars, connVars>>

\* stream.read returns Err (an I/O error or the 5-second timeout): `?` returns
\* the error from read_request.
FrErr ==
    /\ fpc = "read"
    /\ fpc' = "err"
    /\ lastRead' = "err"
    /\ UNCHANGED <<request, content_length, body_start, nreads, overflowChecks,
                   rlVars, poolVars, limVars, connVars>>

FramerNext ==
    \/ FrRead
    \/ FrEof
    \/ FrErr

\* Ok(String::from_utf8_lossy(&request).to_string())
Returned == from_utf8_lossy(request)

(***************************************************************************)
(* The server: main's accept loop, the pool's workers and                  *)
(* handle_connection (main.rs 145-210) as the job each connection becomes. *)
(* read_request is taken by its three exits (Ok, Err, panic) and the       *)
(* routed page by its status line, content type and a name for its body.   *)
(***************************************************************************)

\* Bounds of the server model.
MaxConns == 31     \* connections the accept loop takes in
MaxBacklog == 1    \* connections waiting in the channel
MaxFaults == 1     \* connections that meet an I/O failure or a panic

\* How a connection can end.
Endings == {"routed", "rejected", "abandoned"}

\* The first request line, as its words: method, target, version.
FirstLines ==
    {<<"GET", "/", "HTTP/1.1">>, <<"POST", "/", "HTTP/1.1">>,
     <<"GET", "/favicon.ico", "HTTP/1.1">>, <<>>}

\* first_line.starts_with("GET / "), and the same for POST.
StartsWith(line, method) ==
    Len(line) >= 3 /\ line[1] = method /\ line[2] = "/"

TooManyRequests == <<"429 Too Many Requests", "text/plain", "rate limit exceeded">>
NotFound == <<"404 Not Found", "text/plain", "not found">>
IndexPage == <<"200 OK", "text/html", "index.html">>
ResultPage == <<"200 OK", "text/html", "index.html with ip_info">>

\* The routing of handle_connection: status, content type, body.
Route(first_line) ==
    IF StartsWith(first_line, "GET") THEN IndexPage
    ELSE IF StartsWith(first_line, "POST") THEN ResultPage
    ELSE NotFound

\* The connection's log with one more step.
Logged(w, e) == [clog EXCEPT ![w] = Append(@, e)]

\* The faults the model has spent.
Faults == served["abandoned"] + Cardinality(failed)

\* A worker received a job: handle_connection(stream, limiter) is entered.
HcEnter(w) ==
    /\ Recv(w)
    /\ cpc' = [cpc EXCEPT ![w] = "start"]
    /\ UNCHANGED <<clog, served>>

\* set_read_timeout, set_write_timeout, then stream.peer_addr(): the peer's
\* ip, with which check_rate_limit is called, or Err => return.
HcPeer(w) ==
    /\ cpc[w] = "start"
    /\ \/ \E k \in Keys :
             /\ CallsMade(k) < Budget(k)
             /\ kkey' = [kkey EXCEPT ![w] = k]
             /\ kpc' = [kpc EXCEPT ![w] = "lock"]
             /\ cpc' = [cpc EXCEPT ![w] = "check"]
             /\ clog' = Logged(w, [ev |-> "peer", ok |-> TRUE])
       \/ /\ Faults < MaxFaults
          /\ cpc' = [cpc EXCEPT ![w] = "closed"]
          /\ clog' = Logged(w, [ev |-> "peer", ok |-> FALSE])
          /\ UNCHANGED <<kkey, kpc>>
    /\ UNCHANGED <<served, limHolder, limPoisoned, know, kres, rlVars, poolVars,
                   frVars>>

\* A handler that goes on to read the request after it answered 429.
AfterRejectFallThrough == "frame"

\* send_response(.., "429 ..."); return;
AfterReject == "closed"

\* check_rate_limit returned: `if !check_rate_limit(..)`.
HcChecked(w) ==
    /\ cpc[w] = "check"
    /\ kpc[w] = "ret"
    /\ kpc' = [kpc EXCEPT ![w] = "idle"]
    /\ cpc' = [cpc EXCEPT ![w] = IF kres[w] THEN "frame" ELSE "reject"]
    /\ clog' = Logged(w, [ev |-> "check", ok |-> kres[w]])
    /\ kres' = [kres EXCEPT ![w] = FALSE]
    /\ UNCHANGED <<served, limHolder, limPoisoned, kkey, know, rlVars,
                   poolVars, frVars>>

\* The rejected connection is answered: send_response writes and flushes
\* (errors of the write are ignored), and the handler returns.
HcReject(w) ==
    /\ cpc[w] = "reject"
    /\ clog' = Logged(w, [ev |-> "respond", res |-> TooManyRequests])
    /\ cpc' = [cpc EXCEPT ![w] = AfterReject]
    /\ UNCHANGED <<served, limVars, rlVars, poolVars, frVars>>

\* A handler that unwraps the result of read_request.
ReadErrorUnwrap == "panic"

\* Err(_) => return
ReadErrorArm == "closed"

\* read_request(&mut stream) returns: Ok(req), or Err (a failed or timed-out
\* read); or it panics on the overflow of its subtraction.
HcFrame(w) ==
    /\ cpc[w] = "frame"
    /\ \/ /\ cpc' = [cpc EXCEPT ![w] = "route"]
          /\ clog' = Logged(w, [ev |-> "frame", ok |-> TRUE])
       \/ /\ Faults < MaxFaults
          /\ cpc' = [cpc EXCEPT ![w] = ReadErrorArm]
          /\ clog' = Logged(w, [ev |-> "frame", ok |-> FALSE])
       \/ /\ Faults < MaxFaults
          /\ overflowChecks
          /\ cpc' = [cpc EXCEPT ![w] = "panic"]
          /\ UNCHANGED clog
    /\ UNCHANGED <<served, limVars, rlVars, poolVars, frVars>>

\* The first line of the request picks the response.
HcRoute(w) ==
    /\ cpc[w] = "route"
    /\ \E line \in FirstLines :
          clog' = Logged(w, [ev |-> "route", res |-> Route(line)])
    /\ cpc' = [cpc EXCEPT ![w] = "respond"]
    /\ UNCHANGED <<served, limVars, rlVars, poolVars, frVars>>

\* A handler that sends its response again.
AfterRespondAgain == "respond"

\* send_response is the last statement of handle_connection.
AfterRespond == "closed"

\* send_response(&mut stream, status, ctype, &body)
HcRespond(w) ==
    /\ cpc[w] = "respond"
    /\ clog' = Logged(w, [ev |-> "respond", res |-> clog[w][Len(clog[w])].res])
    /\ cpc' = [cpc EXCEPT ![w] = AfterRespond]
    /\ UNCHANGED <<served, limVars, rlVars, poolVars, frVars>>

\* How the connection whose log is l ended.
Ending(l) ==
    IF \E i \in 1..Len(l) : l[i].ev = "route" THEN "routed"
    ELSE IF \E i \in 1..Len(l) : l[i].ev = "respond" THEN "rejected"
    ELSE "abandoned"

\* handle_connection returns: the stream is dropped, which closes the
\* connection, and the worker's loop body ends.
HcReturn(w) ==
    /\ cpc[w] = "closed"
    /\ JobReturn(w)
    /\ cpc' = [cpc EXCEPT ![w] = "idle"]
    /\ clog' = [clog EXCEPT ![w] = <<>>]
    /\ served' = [served EXCEPT ![Ending(clog[w])] = @ + 1]

\* handle_connection panics: the worker thread unwinds (the stream is
\* dropped on the way).
HcPanic(w) ==
    /\ cpc[w] = "panic"
    /\ JobPanic(w)
    /\ cpc' = [cpc EXCEPT ![w] = "idle"]
    /\ clog' = [clog EXCEPT ![w] = <<>>]
    /\ UNCHANGED served

\* One step of a worker thread of the server.
ServerStep(w) ==
    \/ Lock(w)
    \/ HcEnter(w)
    \/ HcPeer(w)
    \/ CkStep(w)
    \/ HcChecked(w)
    \/ HcReject(w)
    \/ HcFrame(w)
    \/ HcRoute(w)
    \/ HcRespond(w)
    \/ HcReturn(w)
    \/ HcPanic(w)

\* The accept loop, with at most MaxBacklog connections waiting.
ServerAccept ==
    /\ Len(queue) < MaxBacklog
    /\ AcceptUpTo(MaxConns)

\* (The clock stands still in this specification: the connections arrive
\* within one window. SpecRL and SpecCheck let it advance.)
ServerNext ==
    \/ ServerAccept
    \/ \E w \in Workers : ServerStep(w)

(***************************************************************************)
(* Specifications                                                          *)
(***************************************************************************)

\* No connection is being handled.
ConnStart ==
    /\ cpc = [w \in Workers |-> "idle"]
    /\ clog = [w \in Workers |-> <<>>]
    /\ served = [e \in Endings |-> 0]

\* The other components at rest.
LimIdle == LimStart /\ limPoisoned = FALSE

RLInit ==
    /\ RLStart /\ PoolStart /\ FramerIdle /\ LimIdle /\ ConnStart
    /\ overflowChecks = FALSE
PoolInit ==
    /\ RLStart /\ PoolStart /\ FramerIdle /\ LimIdle /\ ConnStart
    /\ overflowChecks \in BOOLEAN
FramerInit == RLStart /\ PoolStart /\ FramerStart /\ LimIdle /\ ConnStart

\* check_rate_limit takes the limiter as it finds it: its Mutex sound, or
\* poisoned by a thread that panicked while it held the guard.
CheckInit ==
    /\ RLStart /\ PoolStart /\ FramerIdle /\ LimStart /\ ConnStart
    /\ limPoisoned \in BOOLEAN
    /\ overflowChecks = FALSE

SpecRL == RLInit /\ [][RLNext]_vars

SpecPool == PoolInit /\ [][PoolNext]_vars

SpecFramer == FramerInit /\ [][FramerNext]_vars

SpecCheck == CheckInit /\ [][CheckNext]_vars

SpecServer == PoolInit /\ [][ServerNext]_vars

\* The operating system schedules every runnable thread: as long as some
\* worker thread can take a step, a worker step is eventually taken.
FairPool == SpecPool /\ WF_vars(\E w \in Workers : WorkerStep(w))

(***************************************************************************)
(* Rate limiter: properties                                                *)
(***************************************************************************)

\* The checks of key k at positions 1..i that lie inside the 60-second window
\* ending at check i.
Trailing(k, i) ==
    {j \in 1..i : DurationSince(hist[k][i].t, hist[k][j].t) < Window}

\* Some stored timestamp of key k is outside the window of instant t.
Stale(m, k, t) ==
    \E i \in 1..Len(EntryOrDefault(m, k)) :
        DurationSince(t, EntryOrDefault(m, k)[i]) >= Window

\* C1: a check whose trailing 60-second window holds at most 30 checks of its
\* key (itself included) is allowed; a check that has 30 allowed checks of its
\* key in its trailing window is rejected; in particular, in the 60 seconds
\* that start at a key's first check, checks 1..30 are allowed and the 31st
\* (and any later one) is rejected.
C1_AllowUpTo30RejectThe31st ==
    \A k \in Keys : \A i \in 1..Len(hist[k]) :
        /\ Cardinality(Trailing(k, i)) <= MaxRequests => hist[k][i].ok
        /\ Cardinality({j \in Trailing(k, i) : j < i /\ hist[k][j].ok})
              >= MaxRequests => ~hist[k][i].ok
        /\ DurationSince(hist[k][i].t, hist[k][1].t) < Window
              => (hist[k][i].ok <=> i <= MaxRequests)

\* 31 checks of one key inside one window: 30 allowed, the 31st rejected.
C1_Witness ==
    \E k \in Keys :
        /\ Len(hist[k]) >= MaxRequests + 1
        /\ \A i \in 1..MaxRequests : hist[k][i].ok
        /\ ~hist[k][MaxRequests + 1].ok
        /\ DurationSince(hist[k][MaxRequests + 1].t, hist[k][1].t) < Window

\* C8: a rejected check() leaves the map exactly as it was (nothing appended,
\* nothing reordered), and at every moment each key's stored timestamps are
\* those that result from running only its accepted checks, all of which are
\* accepted again: the rejected attempts have no effect on later outcomes.
C8_RejectedNotRecorded ==
    /\ [](\A k \in Keys :
            /\ EntryOrDefault(map, k) = EntryOrDefault(accOnly[k].map, k)
            /\ \A i \in 1..Len(accOnly[k].oks) : accOnly[k].oks[i])
    /\ [][\A k \in Keys :
            (Len(hist'[k]) > Len(hist[k]) /\ ~hist'[k][Len(hist'[k])].ok)
                => map' = map]_vars

\* A key was rejected and, after the clock moved, accepted again.
C8_Witness ==
    \E k \in Keys : \E i \in 1..Len(hist[k]) : \E j \in 1..Len(hist[k]) :
        /\ i < j
        /\ ~hist[k][i].ok
        /\ hist[k][j].ok
        /\ Len(map[k]) = MaxRequests

\* C9: right after a check of key k (the clock still at the instant of the
\* check) every timestamp stored for k is less than 60 seconds old; and a check
\* of k made while k holds a timestamp that fell out of the window is allowed
\* (the eviction freed a slot) and stores none of the old ones.
C9_StoredWithinWindow ==
    /\ [](\A k \in Keys :
            (hist[k] # <<>> /\ hist[k][Len(hist[k])].t = now)
                => ~Stale(map, k, now))
    /\ [][\A k \in Keys :
            (Len(hist'[k]) > Len(hist[k]) /\ Stale(map, k, now))
                => /\ hist'[k][Len(hist'[k])].ok
                   /\ ~Stale(map', k, now)
                   /\ Len(map'[k]) <= Len(map[k])]_vars

\* Key k, full at 30 of which the oldest expired, was checked: the old
\* timestamp went and the check took the freed slot, while another key still
\* holds an expired timestamp.
C9_Witness ==
    \E k \in Keys : \E j \in Keys :
        /\ j # k
        /\ Len(hist[k]) > MaxRequests
        /\ hist[k][Len(hist[k])] = [t |-> now, ok |-> TRUE]
        /\ \E i \in 1..Len(hist[k]) :
              hist[k][i].ok /\ DurationSince(now, hist[k][i].t) >= Window
        /\ Len(map[k]) = MaxRequests
        /\ Stale(map, j, now)

\* C10: a check of key k changes the entry of no other key, and the outcomes
\* of every key's checks are those of the same checks run for that key alone
\* on an empty map, whatever the other keys did.
C10_KeysIndependent ==
    /\ [](\A k \in Keys :
            /\ solo[k].oks = [i \in 1..Len(hist[k]) |-> hist[k][i].ok]
            /\ EntryOrDefault(map, k) = EntryOrDefault(solo[k].map, k))
    /\ [][\A k \in Keys :
            Len(hist'[k]) > Len(hist[k])
                => \A j \in Keys \ {k} :
                      /\ (j \in DOMAIN map') <=> (j \in DOMAIN map)
                      /\ EntryOrDefault(map', j) = EntryOrDefault(map, j)]_vars

\* One key is exhausted (a rejection) and another key, checked afterwards in the
\* same window, is allowed.
C10_Witness ==
    \E k \in Keys : \E j \in Keys :
        /\ j # k
        /\ hist[k] # <<>>
        /\ ~hist[k][Len(hist[k])].ok
        /\ Len(map[k]) = MaxRequests
        /\ hist[j] # <<>>
        /\ hist[j][Len(hist[j])] = [t |-> now, ok |-> TRUE]
        /\ hist[k][Len(hist[k])].t = now
        /\ map[j][Len(map[j])] = now

(***************************************************************************)
(* Thread pool: properties                                                 *)
(***************************************************************************)

LiveWorkers == {w \in Workers : wpc[w] # "dead"}

\* C2: a failure of a job is contained at the job: no step ends a worker
\* thread, so the number of live workers never decreases.
C2_WorkersSurvive ==
    [][/\ \A w \in Workers : wpc[w] # "dead" => wpc'[w] # "dead"
       /\ Cardinality({w \in Workers : wpc'[w] # "dead"})
             >= Cardinality(LiveWorkers)]_vars

\* C3: (pool of at least 2 workers) every job submitted after a job failed is
\* eventually dequeued and executed by a worker.
C3_ServedAfterFailure ==
    \A j \in Jobs : (j \in afterFailure) ~> (j \in started)

\* C4: while one worker is executing a job, an idle worker can take a queued
\* job: the receiver is free for it to lock.
C4_IdleWorkerCanDequeue ==
    \A w \in Workers : \A v \in Workers \ {w} :
        (wpc[w] = "run" /\ wpc[v] = "lock" /\ queue # <<>>)
            => ENABLED Lock(v)

\* Where submitted job j is: how many of the channel, the workers and the
\* sets of ended jobs hold it.
Holders(j) ==
    Cardinality({i \in 1..Len(queue) : queue[i] = j})
       + Cardinality({w \in Workers : wjob[w] = j})
       + Cardinality({x \in {"finished", "failed", "dropped"} :
                         \/ x = "finished" /\ j \in finished
                         \/ x = "failed" /\ j \in failed
                         \/ x = "dropped" /\ j \in dropped})

\* C15: the queue is FIFO with exclusive ownership. Every submitted job is
\* in exactly one place (waiting in the channel, owned by one worker, ended,
\* or dropped with the channel), the channel holds the waiting jobs in
\* submission order, a job is dropped only when no worker is alive, and
\* every step in which a worker claims a job claims one that was never
\* claimed before and is the oldest not yet claimed.
C15_FifoExclusive ==
    /\ [](/\ \A j \in 1..accepted : Holders(j) = 1
          /\ \A i \in 1..Len(queue) : \A n \in 1..Len(queue) :
                i < n => queue[i] < queue[n]
          /\ \A j \in 1..accepted :
                j \in started <=> (\A i \in 1..Len(queue) : queue[i] # j)
                                     /\ j \notin dropped
          /\ dropped # {} => ReceiverGone(wpc))
    /\ [][\A w \in Workers :
             (wjob'[w] # wjob[w] /\ wjob'[w] # NoJob)
                => /\ wjob'[w] \notin started
                   /\ \A i \in 1..accepted : i < wjob'[w] => i \in started]_vars

\* A worker owns the second job, the first has ended and two more wait in
\* submission order.
C15_Witness ==
    /\ \E w \in Workers : wjob[w] = 2
    /\ 1 \in finished
    /\ queue = <<3, 4>>

\* C17: a failed accept is skipped and never ends the accept loop. After any
\* accepts and failures the loop is still accepting (as far as the model's
\* bound on connections goes, an accept is enabled); a failed accept submits
\* nothing and changes nothing else; a successful accept submits exactly one
\* job, the next one, and does none of the work of a request itself. So the
\* jobs submitted are as many as the connections accepted.
C17_AcceptErrorsSkipped ==
    /\ [](/\ apc = "accept"
          /\ accepted < MaxJobs => ENABLED Accept
          /\ accepted = Len(queue) + Cardinality(started) + Cardinality(dropped))
    /\ [][acceptErrors' # acceptErrors
             => UNCHANGED <<accepted, queue, dropped, wpc, wjob, started,
                            finished, failed, rxHolder, rxPoisoned>>]_vars
    /\ [][accepted' # accepted
             => /\ accepted' = accepted + 1
                /\ \/ queue' = Append(queue, accepted') /\ dropped' = dropped
                   \/ /\ ReceiverGone(wpc)
                      /\ dropped' = dropped \cup {accepted'}
                      /\ queue' = queue
                /\ UNCHANGED <<wpc, wjob, started, finished, failed, rxHolder,
                               rxPoisoned, acceptErrors, rlVars, limVars,
                               connVars>>]_vars

\* Two accepts failed, two succeeded; one connection has been served and the
\* other waits in the channel.
C17_Witness ==
    /\ acceptErrors = 2
    /\ accepted = 2
    /\ 1 \in finished
    /\ queue = <<2>>

(***************************************************************************)
(* Request framer: properties                                              *)
(***************************************************************************)

\* The lines of the head: those that start before the header terminator.
HeadLineStarts(s) ==
    {st \in LineStarts(s) : st <= FindIndex(s, Terminator)}

\* The Content-Length the head declares: the first line before the header
\* terminator that starts with "content-length:" in any case, parsed as a
\* non-negative integer; 0 when there is none or it does not parse.
DeclaredLength(s) ==
    LET hits == {st \in HeadLineStarts(s) : IsLengthLine(Line(s, st))}
    IN  IF hits = {} THEN U(0)
        ELSE ParseOrZero(SplitNth1(Line(s, Min(hits))))

\* The accumulated bytes are a request with a correctly declared body: a
\* head, its terminator and exactly the (one or more) body bytes the head
\* declares.
CompleteRequest(req) ==
    LET at == FindIndex(req, Terminator)
        after == ByteLen(req) - (ByteLenRange(req, 1, at - 1) + 4)
    IN  /\ at # 0
        /\ after > 0
        /\ U(after) = DeclaredLength(from_utf8_lossy(req))

\* C5 (as claimed): the bytes the framer returns never exceed 16384.
C5_NeverExceedsCap ==
    fpc = "done" => ByteLen(request) <= Cap

\* C5 (amended): the framer reads on only while it holds at most 16384 bytes,
\* so what it accumulates never exceeds 16384 + 8192 = 24576 bytes (the cap
\* plus one chunk), and the lossily decoded text it returns is at most three
\* times as long as the bytes accumulated.
C5_BoundedByCapPlusChunk ==
    /\ fpc = "read" => ByteLen(request) <= Cap
    /\ ByteLen(request) <= Cap + ChunkSize
    /\ fpc = "done" => ByteLen(Returned) <= 3 * ByteLen(request)

\* A stream of full chunks without header terminator: the framer returned
\* with cap + chunk bytes.
C5_Witness ==
    /\ fpc = "done"
    /\ lastRead = "data"
    /\ FindIndex(Returned, Terminator) = 0
    /\ ByteLen(request) = Cap + ChunkSize

\* C6: once the buffer holds the header terminator, content_length is the
\* length the head declares: it comes from the lines before the terminator
\* only (first match, any case, 0 when absent or unparsable), never from the
\* text after it.
C6_LengthFromHeadOnly ==
    FindIndex(from_utf8_lossy(request), Terminator) # 0
        => content_length = DeclaredLength(from_utf8_lossy(request))

\* C7: after a read that leaves the buffer with the head, the terminator and
\* the declared number of body bytes, the framer has returned (it asks for no
\* further read); and after a read of zero bytes it has returned what it had.
\* (The request may have arrived in one read or in several.)
C7_ReturnsWhenBodyComplete ==
    /\ (lastRead = "data" /\ CompleteRequest(request)) => fpc = "done"
    /\ lastRead = "eof" => fpc = "done"

\* C19: whatever bytes arrive, invalid ones ahead of the terminator included,
\* once the terminator is in the buffer body_start is the raw offset just
\* after it, so it is at most the number of raw bytes accumulated, the
\* subtraction request.len() - body_start never underflows, and the framer
\* never fails on invalid bytes.
C19_BodyStartWithinRaw ==
    /\ fpc # "panic"
    /\ FindIndex(request, Terminator) # 0
          => /\ body_start <= ByteLen(request)
             /\ body_start
                   = ByteLenRange(request, 1,
                                  FindIndex(request, Terminator) - 1) + 4

\* C20: the read loop ends after a bounded number of reads. While the loop
\* is to read again the buffer holds at most 16384 bytes, and a read that
\* does not end the loop makes the buffer strictly longer: at most 16385
\* reads return data, and a read of zero bytes or a failed read ends the loop
\* at once, whatever Content-Length says and terminator or not.
C20_FramerTerminates ==
    /\ [](fpc = "read" => ByteLen(request) <= Cap)
    /\ [][fpc = "read"
             => \/ fpc' # "read"
                \/ ByteLen(request') > ByteLen(request)]_vars

\* A head that declares more body bytes than ever arrive, followed by filler:
\* the loop ended on the size test with the body still incomplete.
C20_Witness ==
    /\ fpc = "done"
    /\ lastRead = "data"
    /\ FindIndex(request, Terminator) # 0
    /\ body_start <= ByteLen(request)
    /\ ~GE(U(ByteLen(request) - body_start), content_length)
    /\ ByteLen(request) > Cap

(***************************************************************************)
(* check_rate_limit under its Mutex: properties                            *)
(***************************************************************************)

\* C16: when check_rate_limit finds the Mutex poisoned it fails open: the
\* call returns true, it never enters the section that updates the map, the
\* map stays as it was, and the call returns to its caller like any other.
C16_PoisonedFailsOpen ==
    /\ [](limPoisoned
             => \A w \in Workers :
                   /\ kpc[w] \in {"idle", "lock", "ret"}
                   /\ kpc[w] = "ret" => kres[w] = TRUE
                   /\ limHolder # w)
    /\ [][limPoisoned
             => /\ map' = map
                /\ \A w \in Workers :
                      (kpc[w] = "lock" /\ kpc'[w] # "lock")
                         => kpc'[w] = "ret" /\ kres'[w] = TRUE]_vars

\* A call that found the Mutex poisoned has returned true.
C16_Witness ==
    /\ limPoisoned
    /\ \E w \in Workers : kpc[w] = "ret" /\ kres[w] = TRUE

\* The allowed calls for key k whose timestamps lie in the 60 seconds that
\* end with the timestamp of call i.
AllowedInWindow(k, i) ==
    {j \in 1..Len(hist[k]) :
        /\ hist[k][j].ok
        /\ hist[k][j].t <= hist[k][i].t
        /\ DurationSince(hist[k][i].t, hist[k][j].t) < Window}

\* C18: check_rate_limit is atomic under concurrent callers (the Mutex
\* sound). The verdicts of the calls are those of the calls made one after
\* the other in the order in which they held the Mutex, and between calls
\* the key's vector is the one that sequential run leaves; the stored
\* timestamps are nondecreasing; and at most 30 calls with timestamps inside
\* any one 60-second window were allowed. (The window is taken to end at the
\* call recorded last: timestamps are recorded in nondecreasing order, so
\* every window's allowed calls lie in the window that ends at its latest
\* one, and every call is the latest in the state that records it.)
C18_ChecksAtomic ==
    ~limPoisoned
       => \A k \in Keys :
             /\ solo[k].oks = [i \in 1..Len(hist[k]) |-> hist[k][i].ok]
             /\ limHolder = NoWorker
                   => EntryOrDefault(map, k) = EntryOrDefault(solo[k].map, k)
             /\ \A i \in 1..Len(EntryOrDefault(map, k)) :
                   \A j \in 1..Len(EntryOrDefault(map, k)) :
                      i < j => map[k][i] <= map[k][j]
             /\ hist[k] # <<>>
                   => Cardinality(AllowedInWindow(k, Len(hist[k])))
                         <= MaxRequests

\* A call has just been rejected, its verdict not yet consumed, while another
\* caller waits for the Mutex.
C18_Witness ==
    /\ ~limPoisoned
    /\ Len(hist[HeavyKey]) > MaxRequests
    /\ \E i \in 1..Len(hist[HeavyKey]) : ~hist[HeavyKey][i].ok
    /\ \E w \in Workers : \E v \in Workers :
          kpc[w] = "ret" /\ ~kres[w] /\ kpc[v] = "lock"

(***************************************************************************)
(* The server: properties                                                  *)
(***************************************************************************)

\* Where a worker is about to read from or write to the socket: the 429
\* response, the reads of read_request, the routed response.
IOStates == {"reject", "frame", "respond"}

\* Where a thread is inside check_rate_limit with the guard alive.
CriticalSection == {"retain", "test", "push"}

\* C11: the Mutex around the shared map is held only across the
\* check-and-update section of check_rate_limit: a worker that holds it is
\* inside that section, and no worker holds it while it reads from or writes
\* to a socket, so a connection that stalls in its I/O does not keep the
\* Mutex from a worker that is about to lock it.
C11_LimiterLockNotHeldInIO ==
    \A w \in Workers :
        /\ limHolder = w => (kpc[w] \in CriticalSection /\ cpc[w] = "check")
        /\ cpc[w] \in IOStates => limHolder # w

\* A worker reads the request of a connection whose check went through the
\* Mutex and recorded it; the Mutex is free.
C11_Witness ==
    \E w \in Workers :
        /\ cpc[w] = "frame"
        /\ EntryOrDefault(map, MapKey(kkey[w])) # <<>>
        /\ limHolder = NoWorker

\* The steps of a connection whose check allowed it, and of one it rejected,
\* in the order the claim gives them. (The peer's address is taken first: it
\* is the identity the check needs.)
AllowedOrder == <<"peer", "check", "frame", "route", "respond">>
RejectedOrder == <<"peer", "check", "respond">>

\* The log l follows the order of steps ord.
Follows(l, ord) ==
    /\ Len(l) <= Len(ord)
    /\ \A i \in 1..Len(l) : l[i].ev = ord[i]

\* The connection of log l has had its rate check, with this verdict.
Checked(l, verdict) == Len(l) >= 2 /\ l[2].ev = "check" /\ l[2].ok = verdict

\* C12: within one connection the steps come in the order rate-check, frame,
\* route, respond, close. No request byte is read before the check; an
\* allowed connection is framed and (its request read) routed and answered
\* with what the routing chose; a rejected one gets exactly the 429 response
\* and is closed, neither framed nor routed. With the requests of one
\* identity all inside one window, the first 30 checks allow and every later
\* one rejects.
C12_StepsInOrder ==
    /\ \A w \in Workers :
          LET l == clog[w]
          IN  /\ cpc[w] \in {"frame", "route", "respond", "panic"}
                    => Checked(l, TRUE)
              /\ cpc[w] = "reject" => Checked(l, FALSE)
              /\ cpc[w] = "frame" => Len(l) = 2
              /\ Checked(l, TRUE)
                    => /\ Follows(l, AllowedOrder)
                       /\ cpc[w] = "closed"
                             => /\ Len(l) >= 3
                                /\ l[3].ok => /\ Len(l) = 5
                                              /\ l[5].res = l[4].res
                                /\ ~l[3].ok => Len(l) = 3
              /\ Checked(l, FALSE)
                    => /\ Follows(l, RejectedOrder)
                       /\ cpc[w] \in {"reject", "closed"}
                       /\ cpc[w] = "closed"
                             => /\ Len(l) = 3
                                /\ l[3].res = <<"429 Too Many Requests",
                                                "text/plain",
                                                "rate limit exceeded">>
    /\ \A k \in Keys : \A i \in 1..Len(hist[k]) :
          hist[k][i].ok <=> i <= MaxRequests

\* Thirty connections of one identity were routed and the 31st has just been
\* answered 429 and closed.
C12_Witness ==
    /\ served["routed"] = MaxRequests
    /\ Len(hist[HeavyKey]) = MaxRequests + 1
    /\ hist[LightKey] = <<>>
    /\ \E w \in Workers :
          /\ cpc[w] = "closed"
          /\ Checked(clog[w], FALSE)
          /\ Len(clog[w]) = 3

\* The connection of log l met an I/O failure: its peer address could not be
\* had, or a read of its request failed or timed out.
FailedIo(l) ==
    \E i \in 1..Len(l) : l[i].ev \in {"peer", "frame"} /\ ~l[i].ok

\* C13: a connection that meets an I/O failure is abandoned silently: the
\* handler returns at once, no response has been written to it, and when the
\* job ends it ends normally: it is finished, not failed, the worker is back
\* at the head of its loop to dequeue again, and no thread has ended.
C13_IoFailureAbandonsSilently ==
    /\ [](\A w \in Workers :
             FailedIo(clog[w])
                => /\ cpc[w] = "closed"
                   /\ \A i \in 1..Len(clog[w]) : clog[w][i].ev # "respond")
    /\ [][\A w \in Workers :
             (FailedIo(clog[w]) /\ clog'[w] # clog[w])
                => /\ wpc'[w] = "lock"
                   /\ wjob[w] \in finished'
                   /\ wjob[w] \notin failed'
                   /\ rxPoisoned' = rxPoisoned
                   /\ served'["abandoned"] = served["abandoned"] + 1
                   /\ \A v \in Workers : wpc[v] # "dead" => wpc'[v] # "dead"]_vars

\* A connection was abandoned on an I/O failure, every worker is alive and a
\* later connection is being handled.
C13_Witness ==
    /\ served["abandoned"] > 0
    /\ \A w \in Workers : wpc[w] # "dead"
    /\ \E w \in Workers : cpc[w] = "route"

\* The positions of log l at which a response was written.
Responses(l) == {i \in 1..Len(l) : l[i].ev = "respond"}

\* C14: a connection gets at most one response and is closed after it: a
\* response is the last step of its log and the handler has returned. When
\* the handler has returned, a connection that passed the check and whose
\* request was read without error got exactly one response, the routed one,
\* and a rate-limited connection exactly one, the 429.
C14_AtMostOneResponse ==
    \A w \in Workers :
        LET l == clog[w]
        IN  /\ Cardinality(Responses(l)) <= 1
            /\ \A i \in Responses(l) : i = Len(l) /\ cpc[w] = "closed"
            /\ cpc[w] = "closed"
                  => /\ (Checked(l, TRUE) /\ ~FailedIo(l))
                           => /\ Cardinality(Responses(l)) = 1
                              /\ l[Len(l)].res
                                    \in {Route(line) : line \in FirstLines}
                     /\ Checked(l, FALSE)
                           => /\ Cardinality(Responses(l)) = 1
                              /\ l[Len(l)].res = TooManyRequests

\* A routed response has been written and the handler has returned.
C14_Witness ==
    \E w \in Workers :
        /\ cpc[w] = "closed"
        /\ Checked(clog[w], TRUE)
        /\ Responses(clog[w]) = {5}
        /\ clog[w][5].res = NotFound

=============================================================================
